---- MODULE Spec2Model ----
(***************************************************************************)
(* Ewald summation engine and extended-FNV potential alignment of          *)
(* pydefect (src/pydefect/core/correction.py) as state machines.           *)
(*                                                                         *)
(* Numbers.  A Python float is a fixed-point integer counting 1/Unit:      *)
(* 1.05 is 1050, a lattice constant of 2 Angstrom is 2000.  Products are   *)
(* rescaled with Mul, quotients with Div, both rounding to the nearest     *)
(* 1/Unit (a float rounds to the nearest 2^-53; the resolution differs,    *)
(* the operations are the same).  Comparisons of a norm with a cutoff are  *)
(* done on the squares, which is exact for the fixed-point operands.       *)
(* Integer triples and atom indices are plain integers.                    *)
(***************************************************************************)
EXTENDS Integers, Sequences, FiniteSets, TLC

VARIABLES
    gen,    \* one call of Ewald._generate_neighbor_lattices and its drain
    opt,    \* one call of Ewald(...) or of Ewald.from_optimization, and the
            \* object read back from its dictionary
    cor,    \* one Correction object, its dictionary and what is read back
    aln,    \* one call of Correction.compute_alignment_by_extended_fnv, or
            \* two such calls that share the perfect results, or one
            \* DefectEntry and its atom_mapping_to_perfect
    drv     \* one run of the command line's correction(args) over its
            \* directories

vars == <<gen, opt, cor, aln, drv>>

Idle == [pc |-> "idle"]

Unit == 10 ^ 3

\* None and float('nan') are two values no float of the program takes
None == 0 - 2 ^ 30
NaN == None + 1

Abs(x) == IF x < 0 THEN -x ELSE x
Min2(a, b) == IF a < b THEN a ELSE b

\* a * b of two fixed-point numbers, rounded to the nearest 1/Unit
Mul(a, b) == (a * b + Unit \div 2) \div Unit

\* a / b of two fixed-point numbers (b > 0), rounded to the nearest 1/Unit
Div(a, b) == (a * Unit + b \div 2) \div b

\* TLC evaluates an ENABLED, and so a fairness condition, without keeping the
\* value of a LET definition or of an operator argument: each use evaluates
\* it again.  A value that is used many times is therefore bound once: as a
\* function argument, or as the one element of a set.

IsqrtIter[n \in Nat, x \in Nat] ==
    LET y == (x + n \div x) \div 2
    IN  IF y >= x THEN x ELSE IsqrtIter[n, y]

\* floor of the square root of the natural number n (Newton's iteration)
Isqrt(n) == IF n <= 0 THEN 0 ELSE IsqrtIter[n, Min2(n, 46340)]

\* math.sqrt / np.sqrt of a fixed-point number, rounded to the nearest 1/Unit
Sqrt(x) ==
    LET r == Isqrt(x * Unit)
    IN  IF (r + 1) * (r + 1) - x * Unit <= x * Unit - r * r THEN r + 1 ELSE r

\* int / int of two Python integers (b > 0), as a float
TrueDiv(a, b) == (a * Unit + b \div 2) \div b

\* math.pow(x, 1/3) of a fixed-point number 0 <= x < 1000.0
CbrtBisect[x \in Nat, lo \in Nat, hi \in Nat] ==
    IF hi - lo <= 1 THEN lo
    ELSE LET mid == (lo + hi) \div 2
         IN  IF ((mid * mid) \div Unit) * mid <= x * Unit
             THEN CbrtBisect[x, mid, hi]
             ELSE CbrtBisect[x, lo, mid]

Cbrt(x) == CbrtBisect[x, 0, 10 * Unit]

\* the exponent 0.17 of from_optimization, in binary 0.001010111...:
\* 1/8 + 1/32 + 1/128 + 1/256 + 1/512; the k-th entry is the bit of 2^-k
DampingExponentBits == <<0, 0, 1, 0, 1, 0, 1, 1, 1>>

PowBits[root \in Nat, k \in Nat] ==
    IF k > Len(DampingExponentBits) THEN Unit
    ELSE LET r == Sqrt(root)
         IN  IF DampingExponentBits[k] = 1 THEN Mul(r, PowBits[r, k + 1])
                                           ELSE PowBits[r, k + 1]

\* A faulty variant of Pow017: the exponent has the opposite sign.
Pow017Inverted(x) == Div(Unit, PowBits[x, 1])

\* x ** 0.17 of a fixed-point number x >= 0: the product of the 2^k-th roots
\* of x the exponent's bits select
Pow017(x) == PowBits[x, 1]

PiMicro == 3141593

\* 2 * pi as a float
TwoPi == (2 * PiMicro) \div ((10 ^ 6) \div Unit)

----------------------------------------------------------------------------
(* Vectors are triples, a lattice matrix is a triple of row vectors.       *)

Zero3 == <<0, 0, 0>>

Dot(u, v) == u[1] * v[1] + u[2] * v[2] + u[3] * v[3]

\* square of np.linalg.norm(v)
Norm2(v) == Dot(v, v)

VecAdd(u, v) == <<u[1] + v[1], u[2] + v[2], u[3] + v[3]>>

\* A faulty variant of CartVector: only the diagonal of the basis is used.
CartVectorDiagonal(lattice_vectors, index) ==
    [k \in 1..3 |-> lattice_vectors[k][k] * index[k]]

\* np.dot(lattice_vectors.transpose(), np.array(index))
CartVector(lattice_vectors, index) ==
    [k \in 1..3 |-> lattice_vectors[1][k] * index[1]
                    + lattice_vectors[2][k] * index[2]
                    + lattice_vectors[3][k] * index[3]]

\* int(max_length / np.linalg.norm(row)): floor(m / sqrt(q)) for m >= 0, q > 0
IntOfRatio(max_length, norm2) == Isqrt((max_length * max_length) \div norm2)

\* max_int of _generate_neighbor_lattices
MaxInt(lattice_vectors, max_length) ==
    [i \in 1..3 |-> IntOfRatio(max_length, Norm2(lattice_vectors[i])) + 1]

\* itertools.product(range(-m1, m1+1), range(-m2, m2+1), range(-m3, m3+1)),
\* in the order the product yields it (last axis fastest)
ProductRange(m) ==
    LET w2 == 2 * m[2] + 1
        w3 == 2 * m[3] + 1
        total == (2 * m[1] + 1) * w2 * w3
    IN  [k \in 1..total |->
            <<((k - 1) \div (w2 * w3)) - m[1],
              (((k - 1) \div w3) % w2) - m[2],
              ((k - 1) % w3) - m[3]>>]

\* A faulty variant of KeepIndex: the cutoff is tested on the shifted vector.
KeepIndexShifted(lattice_vectors, max_length, include_self, shift, index) ==
    /\ ~((~include_self) /\ index = Zero3)
    /\ Norm2(VecAdd(CartVector(lattice_vectors, index), shift))
           < max_length * max_length

\* The body of the loop of _generate_neighbor_lattices: whether index yields.
KeepIndex(lattice_vectors, max_length, include_self, shift, index) ==
    /\ ~((~include_self) /\ index = Zero3)
    /\ Norm2(CartVector(lattice_vectors, index)) < max_length * max_length

\* The integer triples for which _generate_neighbor_lattices yields, in order.
YieldingIndices(lattice_vectors, max_length, include_self, shift) ==
    LET Keep(index) ==
            KeepIndex(lattice_vectors, max_length, include_self, shift, index)
        range == CHOOSE r \in {ProductRange(max_int) :
                      max_int \in {MaxInt(lattice_vectors, max_length)}} : TRUE
    IN  SelectSeq(range, Keep)

\* Ewald._generate_neighbor_lattices, drained: the vectors it yields, in order.
GenerateNeighborLattices(lattice_vectors, max_length, include_self, shift) ==
    CHOOSE yielded \in
        {[k \in 1..Len(idx) |->
              VecAdd(CartVector(lattice_vectors, idx[k]), shift)] :
         idx \in {YieldingIndices(lattice_vectors, max_length, include_self,
                                  shift)}} : TRUE

----------------------------------------------------------------------------
(* The Ewald class.  An Ewald object is a record of its fields.            *)

\* np.linalg.norm(v) as a float
Norm(v) ==
    LET r == Isqrt(Norm2(v))
    IN  IF (r + 1) * (r + 1) - Norm2(v) <= Norm2(v) - r * r THEN r + 1 ELSE r

\* the cross product of two float vectors, as floats
CrossF(u, v) == <<Mul(u[2], v[3]) - Mul(u[3], v[2]),
                  Mul(u[3], v[1]) - Mul(u[1], v[3]),
                  Mul(u[1], v[2]) - Mul(u[2], v[1])>>

\* np.linalg.det(m) of a 3x3 float matrix
Det(m) ==
    LET c == CrossF(m[2], m[3])
    IN  Mul(m[1][1], c[1]) + Mul(m[1][2], c[2]) + Mul(m[1][3], c[3])

\* Lattice(m).volume
Volume(m) == Abs(Det(m))

\* Lattice(m).reciprocal_lattice.matrix: row i is 2 pi (a_j x a_k) / det
ReciprocalLatticeMatrix(m) ==
    LET d == Det(m)
        sign == IF d < 0 THEN -1 ELSE 1
        Row(u, v) ==
            LET c == CrossF(u, v)
            IN  [k \in 1..3 |->
                    (sign * TwoPi * c[k] + (Abs(d) \div 2)) \div Abs(d)]
    IN  <<Row(m[2], m[3]), Row(m[3], m[1]), Row(m[1], m[2])>>

\* Ewald.max_r_vector_norm
max_r_vector_norm(self) == Div(self.prod_cutoff_fwhm, self.ewald_param)

\* Ewald.max_g_vector_norm
max_g_vector_norm(self) == Mul(2 * self.ewald_param, self.prod_cutoff_fwhm)

\* Ewald.generate_neighbor_lattices, drained
generate_neighbor_lattices(self, include_self, shift, is_reciprocal) ==
    IF ~is_reciprocal
    THEN GenerateNeighborLattices(self.lattice_matrix, max_r_vector_norm(self),
                                  include_self, shift)
    ELSE GenerateNeighborLattices(self.reciprocal_lattice_matrix,
                                  max_g_vector_norm(self), include_self, shift)

\* sum(1 for _ in generator)
Count(yielded) == Len(yielded)

\* Ewald.__init__
EwaldNew(lattice_matrix, dielectric_tensor, ewald_param, prod_cutoff_fwhm, num_real_lattice, num_reciprocal_lattice) ==
    LET self == [lattice_matrix |-> lattice_matrix,
                 reciprocal_lattice_matrix |->
                     ReciprocalLatticeMatrix(lattice_matrix),
                 dielectric_tensor |-> dielectric_tensor,
                 ewald_param |-> ewald_param,
                 prod_cutoff_fwhm |-> prod_cutoff_fwhm]
    IN  [lattice_matrix |-> self.lattice_matrix,
         reciprocal_lattice_matrix |-> self.reciprocal_lattice_matrix,
         dielectric_tensor |-> self.dielectric_tensor,
         ewald_param |-> self.ewald_param,
         prod_cutoff_fwhm |-> self.prod_cutoff_fwhm,
         num_real_lattice |->
             IF num_real_lattice = None
             THEN Count(generate_neighbor_lattices(self, TRUE, Zero3, FALSE))
             ELSE num_real_lattice,
         num_reciprocal_lattice |->
             IF num_reciprocal_lattice = None
             THEN Count(generate_neighbor_lattices(self, FALSE, Zero3, FALSE))
             ELSE num_reciprocal_lattice]

\* mstats.gmean of the three row norms of a matrix
GmeanOfNorms(m) == Cbrt(Mul(Mul(Norm(m[1]), Norm(m[2])), Norm(m[3])))

\* from_optimization, lines 165 to 189: the first ewald_param
InitialEwaldParam(structure, dielectric_tensor, initial_value) ==
    LET root_det_dielectric == Sqrt(Det(dielectric_tensor))
        cube_root_vol == Cbrt(Volume(structure))
        l_r == GmeanOfNorms(structure)
        l_g == GmeanOfNorms(ReciprocalLatticeMatrix(structure))
    IN  IF initial_value # None
        THEN initial_value
        ELSE Div(Mul(Sqrt(Div(Div(l_g, l_r), 2 * Unit)), cube_root_vol),
                 root_det_dielectric)

\* from_optimization, line 191: ewald of the current ewald_param
EwaldOf(structure, dielectric_tensor, ewald_param) ==
    Mul(Div(ewald_param, Cbrt(Volume(structure))), Sqrt(Det(dielectric_tensor)))

\* A faulty variant of Converged: only the upper edge of the band is tested.
ConvergedBelow(num_real_lattice, num_reciprocal_lattice, convergence) ==
    Unit * num_real_lattice < convergence * num_reciprocal_lattice

\* from_optimization, line 207: 1 / convergence < n_real / n_reciprocal
\* < convergence; exact on the integer counts
Converged(num_real_lattice, num_reciprocal_lattice, convergence) ==
    /\ Unit * num_reciprocal_lattice < convergence * num_real_lattice
    /\ Unit * num_real_lattice < convergence * num_reciprocal_lattice

----------------------------------------------------------------------------
(* GenSpec: Ewald._generate_neighbor_lattices as a pure function.  The     *)
(* inputs are drawn in GenInit, Drain runs the generator to exhaustion and *)
(* records, next to each yielded vector, the integer triple it was         *)
(* yielded for.                                                            *)

MaxNorm == 7

\* a lattice matrix given in whole Angstrom, as floats
Angstrom(m) == [i \in 1..3 |-> [k \in 1..3 |-> m[i][k] * Unit]]

Cubic(a) == <<<<a, 0, 0>>, <<0, a, 0>>, <<0, 0, a>>>>
Orthorhombic == <<<<1, 0, 0>>, <<0, 2, 0>>, <<0, 0, 3>>>>
FccPrimitive == <<<<0, 1, 1>>, <<1, 0, 1>>, <<1, 1, 0>>>>
Sheared == <<<<2, 0, 0>>, <<1, 2, 0>>, <<0, 0, 2>>>>

GenBases == {Angstrom(m) : m \in {Cubic(1), Orthorhombic, FccPrimitive, Sheared}}
GenShifts == {Zero3, <<500, 0, 0>>, <<-300, 400, 1200>>}

GenInit ==
    /\ opt = Idle
    /\ cor = Idle
    /\ aln = Idle
    /\ drv = Idle
    /\ gen \in [pc : {"start"},
                lattice_vectors : GenBases,
                max_length : {k * Unit : k \in 1..MaxNorm},
                include_self : BOOLEAN,
                shift : GenShifts,
                index : {<<>>},
                yielded : {<<>>},
                again : {<<>>}]

\* A faulty variant of ShiftAfter: each vector is added to shift in place.
ShiftAfterInPlace(shift, yielding) ==
    IF yielding = <<>> THEN shift
    ELSE VecAdd(shift, yielding[Len(yielding)])

\* The array shift after a drain: line 256 yields the new array
\* cart_vector + shift and assigns to neither operand.
ShiftAfter(shift, yielding) == shift

Drain ==
    /\ gen.pc = "start"
    /\ UNCHANGED <<opt, cor, aln, drv>>
    /\ gen' = [gen EXCEPT
                 !.pc = "drained",
                 !.index = YieldingIndices(gen.lattice_vectors, gen.max_length,
                                           gen.include_self, gen.shift),
                 !.yielded = GenerateNeighborLattices(gen.lattice_vectors,
                                 gen.max_length, gen.include_self, gen.shift),
                 !.shift = ShiftAfter(gen.shift,
                               GenerateNeighborLattices(gen.lattice_vectors,
                                   gen.max_length, gen.include_self,
                                   gen.shift))]

\* a second call with the same arrays, drained
Restart ==
    /\ gen.pc = "drained"
    /\ UNCHANGED <<opt, cor, aln, drv>>
    /\ gen' = [gen EXCEPT
                 !.pc = "restarted",
                 !.again = GenerateNeighborLattices(gen.lattice_vectors,
                               gen.max_length, gen.include_self, gen.shift),
                 !.shift = ShiftAfter(gen.shift,
                               GenerateNeighborLattices(gen.lattice_vectors,
                                   gen.max_length, gen.include_self,
                                   gen.shift))]

GenNext == Drain \/ Restart

GenSpec == GenInit /\ [][GenNext]_vars

\* the integer triples of the search range of a drained call
SearchRange == {ProductRange(MaxInt(gen.lattice_vectors, gen.max_length))[k] :
                  k \in 1..Len(ProductRange(MaxInt(gen.lattice_vectors,
                                                   gen.max_length)))}

WithinCutoff(v) == Norm2(v) < gen.max_length * gen.max_length

\* C3 as stated: every yielded vector basis.n + shift has itself a norm
\* strictly below max_norm, and with include_self = False the triples
\* yielded are those yielded with include_self = True but for n = (0,0,0).
C3_ShiftedNormBelowCutoff ==
    gen.pc = "drained" =>
        /\ \A k \in 1..Len(gen.yielded) : WithinCutoff(gen.yielded[k])
        /\ ~gen.include_self =>
              {gen.index[k] : k \in 1..Len(gen.index)} =
                 {n \in SearchRange :
                     WithinCutoff(CartVector(gen.lattice_vectors, n))} \ {Zero3}

\* C3 amended: basis.n + shift is yielded for the triple n exactly when n is
\* in the search range and the unshifted lattice vector basis.n has a norm
\* strictly below max_norm; include_self = False removes n = (0,0,0) and
\* no other triple.
C3_UnshiftedNormBelowCutoff ==
    gen.pc = "drained" =>
        /\ Len(gen.yielded) = Len(gen.index)
        /\ \A k \in 1..Len(gen.index) :
              /\ gen.yielded[k] =
                    VecAdd(CartVector(gen.lattice_vectors, gen.index[k]),
                           gen.shift)
              /\ WithinCutoff(CartVector(gen.lattice_vectors, gen.index[k]))
        /\ {gen.index[k] : k \in 1..Len(gen.index)} =
              {n \in SearchRange :
                  /\ WithinCutoff(CartVector(gen.lattice_vectors, n))
                  /\ (gen.include_self \/ n # Zero3)}

\* A drained call with a shift and without the origin that yielded a vector
\* reaching beyond the cutoff.
C3_Witness ==
    /\ gen.pc = "drained"
    /\ gen.shift # Zero3
    /\ ~gen.include_self
    /\ \E k \in 1..Len(gen.yielded) : ~WithinCutoff(gen.yielded[k])

\* |cos| of the angle between two rows is at most 1/2 (60 to 120 degrees);
\* exact for rows given in whole Angstrom
AngleBetween60And120(u, v) ==
    4 * (Dot(u, v) \div Unit) * (Dot(u, v) \div Unit)
        <= (Norm2(u) \div Unit) * (Norm2(v) \div Unit)

AnglesBetween60And120(lattice_vectors) ==
    /\ AngleBetween60And120(lattice_vectors[1], lattice_vectors[2])
    /\ AngleBetween60And120(lattice_vectors[2], lattice_vectors[3])
    /\ AngleBetween60And120(lattice_vectors[1], lattice_vectors[3])

SearchMargin == 1

\* the integer triples up to SearchMargin beyond the search range
WiderRange ==
    LET m == MaxInt(gen.lattice_vectors, gen.max_length)
    IN  {n \in ((-(m[1] + SearchMargin))..(m[1] + SearchMargin))
               \X ((-(m[2] + SearchMargin))..(m[2] + SearchMargin))
               \X ((-(m[3] + SearchMargin))..(m[3] + SearchMargin)) : TRUE}

\* C4 as stated: with all inter-axis angles within 60 to 120 degrees and no
\* shift, every lattice vector basis.n of norm below max_norm is yielded: no
\* such n lies outside the search range.
C4_EnumerationComplete ==
    (/\ gen.pc = "drained"
     /\ gen.shift = Zero3
     /\ gen.include_self
     /\ AnglesBetween60And120(gen.lattice_vectors))
    => \A n \in WiderRange :
          WithinCutoff(CartVector(gen.lattice_vectors, n))
          => \E k \in 1..Len(gen.index) : gen.index[k] = n

----------------------------------------------------------------------------
(* OptSpec: one Ewald object is made, either by the constructor without    *)
(* counts (Construct) or by Ewald.from_optimization (Begin, then one       *)
(* Iterate per pass of its while loop).                                    *)

MaxProdCutoff == 4

Diag(a, b, c) == <<<<a, 0, 0>>, <<0, b, 0>>, <<0, 0, c>>>>

\* a lattice matrix whose first row is the zero vector
ZeroRow == <<<<0, 0, 0>>, <<0, 2, 0>>, <<0, 0, 2>>>>

OptStructures == {Angstrom(m) : m \in {Cubic(2), Orthorhombic, ZeroRow}}
OptDielectrics == {Angstrom(m) : m \in {Diag(1, 1, 1), Diag(1, 1, 4)}}
OptInitialValues == {None, 600, 1200}
OptConvergences == {1050, 1500}
OptProdCutoffs == {k * Unit : k \in 3..MaxProdCutoff}

OptInit ==
    /\ gen = Idle
    /\ cor = Idle
    /\ aln = Idle
    /\ drv = Idle
    /\ opt \in [pc : {"start"},
                structure : OptStructures,
                dielectric_tensor : OptDielectrics,
                initial_value : OptInitialValues,
                convergence : OptConvergences,
                prod_cutoff_fwhm : OptProdCutoffs,
                ewald_param : {None},
                enumerated : {FALSE},
                result : {None},
                restored : {None},
                error : {None}]

\* Lattice(m).reciprocal_lattice inverts m with np.linalg.inv, which raises
\* LinAlgError for a singular matrix
ReciprocalRaises(lattice_matrix) == Det(lattice_matrix) = 0

\* __init__ runs the generator for each count that is None; a run of the
\* generator enumerates at least the triple (0, 0, 0)
EwaldInitEnumerates(num_real_lattice, num_reciprocal_lattice) ==
    num_real_lattice = None \/ num_reciprocal_lattice = None

\* Ewald(lattice_matrix, dielectric_tensor, ewald_param, prod_cutoff_fwhm)
Construct ==
    /\ opt.pc = "start"
    /\ opt.initial_value # None
    /\ opt' = IF ReciprocalRaises(opt.structure)
              THEN [opt EXCEPT !.pc = "raised", !.error = "LinAlgError"]
              ELSE [opt EXCEPT
                      !.pc = "constructed",
                      !.enumerated = EwaldInitEnumerates(None, None),
                      !.result = EwaldNew(opt.structure,
                                     opt.dielectric_tensor, opt.initial_value,
                                     opt.prod_cutoff_fwhm, None, None)]
    /\ UNCHANGED <<gen, cor, aln, drv>>

\* Ewald.from_optimization up to its while loop
Begin ==
    /\ opt.pc = "start"
    /\ opt' = IF ReciprocalRaises(opt.structure)
              THEN [opt EXCEPT !.pc = "raised", !.error = "LinAlgError"]
              ELSE [opt EXCEPT
                      !.pc = "loop",
                      !.ewald_param = InitialEwaldParam(opt.structure,
                                          opt.dielectric_tensor,
                                          opt.initial_value)]
    /\ UNCHANGED <<gen, cor, aln, drv>>

\* A faulty variant of ReturnedEwald: the object keeps ewald_param, not ewald.
ReturnedEwaldParam(real_lattice, dielectric_tensor, ewald_param, ewald, prod_cutoff_fwhm, num_real_lattice, num_reciprocal_lattice) ==
    EwaldNew(real_lattice, dielectric_tensor, ewald_param, prod_cutoff_fwhm,
             num_real_lattice, num_reciprocal_lattice)

\* from_optimization, lines 208 to 210: the object it returns
ReturnedEwald(real_lattice, dielectric_tensor, ewald_param, ewald, prod_cutoff_fwhm, num_real_lattice, num_reciprocal_lattice) ==
    EwaldNew(real_lattice, dielectric_tensor, ewald, prod_cutoff_fwhm,
             num_real_lattice, num_reciprocal_lattice)

\* one pass of the while loop of from_optimization
Iterate ==
    /\ opt.pc = "loop"
    /\ \E real_lattice \in {opt.structure},
          reciprocal_lattice \in {ReciprocalLatticeMatrix(opt.structure)},
          ewald \in {EwaldOf(opt.structure, opt.dielectric_tensor,
                             opt.ewald_param)} :
       \E real_max_length \in {Div(opt.prod_cutoff_fwhm, ewald)},
          reciprocal_max_length \in {Mul(2 * ewald, opt.prod_cutoff_fwhm)} :
       \E num_real_lattice \in
              {Count(GenerateNeighborLattices(real_lattice, real_max_length,
                                              TRUE, Zero3))},
          num_reciprocal_lattice \in
              {Count(GenerateNeighborLattices(reciprocal_lattice,
                                              reciprocal_max_length,
                                              FALSE, Zero3))} :
          opt' =
            IF num_reciprocal_lattice = 0
            THEN [opt EXCEPT !.pc = "raised", !.error = "ZeroDivisionError",
                             !.enumerated = TRUE]
            ELSE IF Converged(num_real_lattice, num_reciprocal_lattice,
                              opt.convergence)
            THEN [opt EXCEPT
                    !.pc = "returned",
                    !.enumerated = TRUE,
                    !.result = ReturnedEwald(real_lattice,
                                   opt.dielectric_tensor, opt.ewald_param,
                                   ewald, opt.prod_cutoff_fwhm,
                                   num_real_lattice, num_reciprocal_lattice)]
            ELSE [opt EXCEPT
                    !.enumerated = TRUE,
                    !.ewald_param =
                        Mul(opt.ewald_param,
                            Pow017(TrueDiv(num_real_lattice,
                                           num_reciprocal_lattice)))]
    /\ UNCHANGED <<gen, cor, aln, drv>>

\* Ewald.as_dict
EwaldAsDict(self) ==
    [lattice_matrix |-> self.lattice_matrix,
     dielectric_tensor |-> self.dielectric_tensor,
     ewald_param |-> self.ewald_param,
     prod_cutoff_fwhm |-> self.prod_cutoff_fwhm,
     num_real_lattice |-> self.num_real_lattice,
     num_reciprocal_lattice |-> self.num_reciprocal_lattice]

\* faulty variant of EwaldFromDict: the stored counts are not handed on
EwaldFromDictWithoutCounts(d) ==
    [enumerated |-> EwaldInitEnumerates(None, None),
     ewald |-> EwaldNew(d.lattice_matrix, d.dielectric_tensor, d.ewald_param,
                        d.prod_cutoff_fwhm, None, None)]

\* Ewald.from_dict: the object, and whether its __init__ ran the generator
EwaldFromDict(d) ==
    [enumerated |-> EwaldInitEnumerates(d.num_real_lattice,
                                        d.num_reciprocal_lattice),
     ewald |-> EwaldNew(d.lattice_matrix, d.dielectric_tensor, d.ewald_param,
                        d.prod_cutoff_fwhm, d.num_real_lattice,
                        d.num_reciprocal_lattice)]

\* Ewald.from_dict(e.as_dict()) of an object e that was constructed or
\* returned by from_optimization
RoundTrip ==
    /\ opt.pc \in {"constructed", "returned"}
    /\ opt' = [opt EXCEPT !.pc = "restored",
                          !.restored = EwaldFromDict(EwaldAsDict(opt.result))]
    /\ UNCHANGED <<gen, cor, aln, drv>>

OptNext == Construct \/ Begin \/ Iterate \/ RoundTrip

OptSpec == OptInit /\ [][OptNext]_vars

\* A call that is inside the while loop runs its next pass: Python runs the
\* loop body again whenever the loop has not returned or raised.
FairOptSpec == OptSpec /\ WF_vars(Iterate)

Rescaled ==
    opt.ewald_param # InitialEwaldParam(opt.structure, opt.dielectric_tensor,
                                        opt.initial_value)

\* C1: whenever from_optimization returns, the counts of the returned object
\* satisfy 1/convergence <= num_real_lattice / num_reciprocal_lattice
\* <= convergence.
C1_ReturnedRatioInBand ==
    opt.pc = "returned" =>
        /\ Unit * opt.result.num_reciprocal_lattice
               <= opt.convergence * opt.result.num_real_lattice
        /\ Unit * opt.result.num_real_lattice
               <= opt.convergence * opt.result.num_reciprocal_lattice

\* from_optimization returned after it had rescaled at least once
C1_Witness ==
    /\ opt.pc = "returned"
    /\ Rescaled
    /\ opt.result.num_real_lattice # opt.result.num_reciprocal_lattice

\* C2: the rescaling loop is bounded: once entered it always ends, by a
\* return or by an error, also when the ratio keeps alternating around the
\* band.
C2_LoopEnds == (opt.pc = "loop") ~> (opt.pc \in {"returned", "raised"})

RealCount(self) ==
    Count(GenerateNeighborLattices(self.lattice_matrix,
              max_r_vector_norm(self), TRUE, Zero3))

ReciprocalCount(self) ==
    Count(GenerateNeighborLattices(self.reciprocal_lattice_matrix,
              max_g_vector_norm(self), FALSE, Zero3))

\* C5: an Ewald object constructed without counts holds the number of real
\* lattice vectors, origin included, within P/sigma and the number of
\* reciprocal lattice vectors, origin excluded, within 2*sigma*P.
C5_ConstructedCounts ==
    opt.pc = "constructed" =>
        /\ opt.result.num_real_lattice = RealCount(opt.result)
        /\ opt.result.num_reciprocal_lattice = ReciprocalCount(opt.result)

\* C6: the counts of the object from_optimization returns are those its own
\* generate_neighbor_lattices yields at the sigma it stores.
C6_ReturnedCountsFresh ==
    opt.pc = "returned" =>
        /\ opt.result.num_real_lattice =
               Count(generate_neighbor_lattices(opt.result, TRUE, Zero3, FALSE))
        /\ opt.result.num_reciprocal_lattice =
               Count(generate_neighbor_lattices(opt.result, FALSE, Zero3, TRUE))

\* returned after a rescaling, with a sigma that differs from ewald_param
C6_Witness ==
    /\ opt.pc = "returned"
    /\ Rescaled
    /\ opt.result.ewald_param # opt.ewald_param

----------------------------------------------------------------------------
(* The Correction class.  A Correction object is a record of its fields;   *)
(* a dictionary is a function from its keys, the empty dictionary <<>>.    *)

\* CorrectionMethod.extended_fnv
extended_fnv == "Extended FNV"

\* Correction.__init__
CorrectionNew(method, ewald, diff_ave_pot, alignment, manually_set_energy) ==
    [method |-> method,
     ewald |-> ewald,
     diff_ave_pot |-> diff_ave_pot,
     alignment |-> alignment,
     manually_set_energy |-> manually_set_energy]

\* Correction.as_dict: the definition at the end of the class body, which
\* replaces the one at lines 297 to 308
CorrectionAsDict(self) == <<>>

\* Correction.from_dict: the definition at the end of the class body.  The
\* lookup d["distance_list"] raises KeyError for a missing key; with the key,
\* cls(...) is called with one argument where __init__ requires four.
CorrectionFromDict(d) ==
    IF "distance_list" \in DOMAIN d
    THEN [raised |-> "TypeError"]
    ELSE [raised |-> "KeyError"]

----------------------------------------------------------------------------
(* DictSpec: a Correction is made, its manually set energy may be set, it  *)
(* is turned into a dictionary and a Correction is read from a dictionary. *)

DictEwalds ==
    {EwaldNew(Angstrom(Cubic(2)), Angstrom(Diag(1, 1, 1)), 886, 3 * Unit,
              19, 18),
     EwaldNew(Angstrom(Cubic(2)), Angstrom(Diag(1, 1, 1)), 600, 3 * Unit,
              81, 6)}
DictPotentials == {-150, 0, 230}
DictAlignments == {-460, 0, 150}
DictEnergies == {None, 500, -1200}
DictDistanceLists == {<<0, 1732, 2000>>, <<>>}

DictInit ==
    /\ gen = Idle
    /\ opt = Idle
    /\ aln = Idle
    /\ drv = Idle
    /\ \E ewald \in DictEwalds, diff_ave_pot \in DictPotentials,
          alignment \in DictAlignments :
          cor = [pc |-> "made",
                 c |-> CorrectionNew(extended_fnv, ewald, diff_ave_pot,
                                     alignment, None),
                 source |-> "",
                 d |-> <<>>,
                 error |-> ""]

\* c.manually_set_energy = value
SetManuallySetEnergy ==
    /\ cor.pc = "made"
    /\ \E value \in DictEnergies :
          /\ value # cor.c.manually_set_energy
          /\ cor' = [cor EXCEPT !.c.manually_set_energy = value]
    /\ UNCHANGED <<gen, opt, aln, drv>>

\* d = c.as_dict()
AsDict ==
    /\ cor.pc = "made"
    /\ cor' = [cor EXCEPT !.pc = "dumped",
                          !.source = "as_dict",
                          !.d = CorrectionAsDict(cor.c)]
    /\ UNCHANGED <<gen, opt, aln, drv>>

\* Correction.from_dict(d) of the dictionary as_dict gave
FromDict ==
    /\ cor.pc = "dumped"
    /\ cor' = [cor EXCEPT !.pc = "raised",
                          !.error = CorrectionFromDict(cor.d).raised]
    /\ UNCHANGED <<gen, opt, aln, drv>>

\* Correction.from_dict(d) of a dictionary a caller made
FromDistanceListDict ==
    /\ cor.pc = "made"
    /\ \E distance_list \in DictDistanceLists :
          cor' = [cor EXCEPT
                    !.pc = "raised",
                    !.source = "caller",
                    !.d = [distance_list |-> distance_list],
                    !.error = CorrectionFromDict(
                                  [distance_list |-> distance_list]).raised]
    /\ UNCHANGED <<gen, opt, aln, drv>>

DictNext == SetManuallySetEnergy \/ AsDict \/ FromDict \/ FromDistanceListDict

DictSpec == DictInit /\ [][DictNext]_vars

\* C7: a Correction turned into a dictionary by as_dict and read back by
\* from_dict is a Correction with the same method, Ewald sigma and counts,
\* average potential difference, alignment and manually set energy: the
\* dictionary as_dict gives holds these five entries and from_dict of it
\* does not raise.
C7_DictRoundTrip ==
    cor.source = "as_dict" =>
        /\ DOMAIN cor.d = {"method", "ewald", "diff_ave_pot", "alignment",
                           "manually_set_energy"}
        /\ cor.pc # "raised"

----------------------------------------------------------------------------
(* unitcell_dft_results.py and defect_entry.py: the geometry and the atom  *)
(* mapping compute_alignment_by_extended_fnv reads.  A Python list is a    *)
(* sequence; the Python index i is the position i + 1.                     *)

VecSub(u, v) == <<u[1] - v[1], u[2] - v[2], u[3] - v[3]>>

MinOf(S) == CHOOSE x \in S : \A y \in S : x <= y
MaxOf(S) == CHOOSE x \in S : \A y \in S : x >= y

RECURSIVE SumSeq(_)
SumSeq(q) == IF q = <<>> THEN 0 ELSE Head(q) + SumSeq(Tail(q))

\* a / n of a float and a positive integer, rounded to the nearest 1/Unit
DivRound(a, n) == (2 * a + n) \div (2 * n)

\* np.mean of a list of floats: nan for the empty list and for a list that
\* holds a nan
Mean(q) ==
    IF Len(q) = 0 \/ (\E k \in 1..Len(q) : q[k] = NaN) THEN NaN
    ELSE DivRound(SumSeq(q), Len(q))

\* range(n)
Range(n) == [k \in 1..n |-> k - 1]

\* list.pop(i)
ListPop(l, i) == SubSeq(l, 1, i) \o SubSeq(l, i + 2, Len(l))

\* list.insert(i, x)
ListInsert(l, i, x) ==
    SubSeq(l, 1, Min2(i, Len(l))) \o <<x>>
        \o SubSeq(l, Min2(i, Len(l)) + 1, Len(l))

\* sorted(keys, reverse=True)
RECURSIVE SortedReverse(_)
SortedReverse(S) ==
    IF S = {} THEN <<>> ELSE <<MaxOf(S)>> \o SortedReverse(S \ {MaxOf(S)})

RECURSIVE PopEach(_, _)
PopEach(l, keys) ==
    IF keys = <<>> THEN l ELSE PopEach(ListPop(l, Head(keys)), Tail(keys))

RECURSIVE InsertEach(_, _, _)
InsertEach(l, keys, x) ==
    IF keys = <<>> THEN l
    ELSE InsertEach(ListInsert(l, Head(keys), x), Tail(keys), x)

Elements(q) == {q[k] : k \in 1..Len(q)}

\* the keys of the dictionary removed_atoms
RemovedKeys(defect_entry) ==
    {defect_entry.removed_atoms[k].index :
         k \in 1..Len(defect_entry.removed_atoms)}

\* DefectEntry.atom_mapping_to_perfect
atom_mapping_to_perfect(defect_entry) ==
    LET total_nions_in_perfect ==
            Len(defect_entry.initial_structure)
                - Len(defect_entry.inserted_atoms)
                + Len(defect_entry.removed_atoms)
        popped == PopEach(Range(total_nions_in_perfect),
                          SortedReverse(RemovedKeys(defect_entry)))
    IN  InsertEach(popped,
                   SortedReverse(Elements(defect_entry.inserted_atoms)), None)

\* np.dot(lattice_vector_matrix, v) of a float vector v
MatVec(m, v) ==
    [i \in 1..3 |-> Mul(m[i][1], v[1]) + Mul(m[i][2], v[2])
                        + Mul(m[i][3], v[3])]

\* np.dot(lattice_vector_matrix, index) of an integer triple
MatIndex(m, index) ==
    [i \in 1..3 |-> m[i][1] * index[1] + m[i][2] * index[2]
                        + m[i][3] * index[3]]

\* product((-1, 0, 1), repeat=3)
NeighborImages == {<<i, j, k>> : i \in {-1, 0, 1}, j \in {-1, 0, 1},
                                 k \in {-1, 0, 1}}

min_distance_under_pbc(frac1, frac2, lattice_vector_matrix) ==
    LET frac == MatVec(lattice_vector_matrix, VecSub(frac2, frac1))
    IN  MinOf({Norm(VecAdd(MatIndex(lattice_vector_matrix, index), frac)) :
                   index \in NeighborImages})

distance_list(frac_coords, lattice_vector_matrix, coords) ==
    [k \in 1..Len(frac_coords) |->
        min_distance_under_pbc(frac_coords[k], coords, lattice_vector_matrix)]

\* defect_center: the mean of the coordinates of the inserted and of the
\* removed atoms
defect_center(defect_entry, frac_coords) ==
    LET inserted_atom_coords ==
            [k \in 1..Len(defect_entry.inserted_atoms) |->
                frac_coords[defect_entry.inserted_atoms[k] + 1]]
        removed_atom_coords ==
            [k \in 1..Len(defect_entry.removed_atoms) |->
                defect_entry.removed_atoms[k].coords]
        defect_coords == inserted_atom_coords \o removed_atom_coords
    IN  [i \in 1..3 |->
            Mean([k \in 1..Len(defect_coords) |-> defect_coords[k][i]])]

\* SupercellDftResults.relative_potential
relative_potential(mapping, ep_defect, ep_perfect) ==
    [d_atom \in 1..Len(mapping) |->
        IF mapping[d_atom] = None THEN None
        ELSE ep_defect[d_atom] - ep_perfect[mapping[d_atom] + 1]]

\* the vector of distance i of calc_distance_two_planes (Python index i):
\* |(a_i-2 x a_i-1) . a_i| / |a_i-2 x a_i-1|
PlaneDistance(lattice_vectors, i) ==
    LET a_i_a_j == CrossF(lattice_vectors[((i + 1) % 3) + 1],
                          lattice_vectors[((i + 2) % 3) + 1])
        a_k == lattice_vectors[i + 1]
    IN  Div(Abs(Mul(a_i_a_j[1], a_k[1]) + Mul(a_i_a_j[2], a_k[2])
                    + Mul(a_i_a_j[3], a_k[3])),
            Norm(a_i_a_j))

calc_distance_two_planes(lattice_vectors) ==
    [k \in 1..3 |-> PlaneDistance(lattice_vectors, k - 1)]

\* max(calc_distance_two_planes(lattice_vectors)) / 2.0
calc_max_sphere_radius(lattice_vectors) ==
    DivRound(MaxOf(Elements(calc_distance_two_planes(lattice_vectors))), 2)

----------------------------------------------------------------------------
(* AlignSpec: one call of Correction.compute_alignment_by_extended_fnv on  *)
(* a supercell of four sites with one vacancy, one interstitial or one     *)
(* substituted atom, with an Ewald object that is given.  The Ewald sums   *)
(* of lines 420 to 450 and 455 to 483 are not evaluated here: for a        *)
(* positive definite tensor the value real_part + reciprocal_part at a     *)
(* site is an input, site_model_potential, to which the model adds         *)
(* diff_pot, and self_pot at the defect site, and which it multiplies by   *)
(* coeff as the code does.  What the model keeps of the sums is the vector *)
(* each is evaluated at.                                                   *)

\* perfect_dft.final_structure.frac_coords
PerfectCoords ==
    << <<0, 0, 0>>, <<500, 500, 0>>, <<500, 0, 500>>, <<0, 500, 500>> >>

SupercellSheared == <<<<4, 0, 0>>, <<2, 4, 0>>, <<0, 0, 4>>>>

AlignLattices ==
    {Angstrom(m) : m \in {Cubic(4), Diag(2, 4, 6), SupercellSheared}}

InterstitialCoords == {<<250, 250, 250>>, <<500, 500, 500>>}

\* perfect_dft.electrostatic_potential, and what the defect adds to it at
\* each site that is kept
EpPerfect == <<-500, -480, -520, -510>>
EpShift == <<120, -80, 60, 30>>
EpInserted == 0 - 700

\* real_part + reciprocal_part in 1/A: at each site of the perfect cell
\* (lines 421 to 448) and at the defect site (lines 453 to 483)
SiteModelPotentials ==
    {[atom |-> <<12, 10, 9, 8>>, defect_site |-> 0 - 40],
     [atom |-> <<-5, -3, -2, -1>>, defect_site |-> 25]}

AlignCharges == {-1, 0, 2}
AlignEwaldParams == {600, 2500}

\* unitcell_dft.total_dielectric_tensor: the identity, a tensor of negative
\* determinant and a singular one
AlignTensors ==
    {Angstrom(m) : m \in {Diag(1, 1, 1), Diag(1, 1, -1), Diag(1, 1, 0)}}

\* defect_dft.final_structure.frac_coords of a defect: the perfect sites
\* without the removed ones, the inserted atom at its index
DefectCoords(removed, inserted, coords) ==
    InsertEach(PopEach(PerfectCoords, SortedReverse(Elements(removed))),
               SortedReverse(Elements(inserted)), coords)

DefectEntryOf(removed, inserted, coords, charge) ==
    [initial_structure |-> DefectCoords(removed, inserted, coords),
     inserted_atoms |-> inserted,
     removed_atoms |-> [k \in 1..Len(removed) |->
                           [index |-> removed[k],
                            coords |-> PerfectCoords[removed[k] + 1]]],
     charge |-> charge]

Vacancies(charge) ==
    {DefectEntryOf(<<k>>, <<>>, Zero3, charge) : k \in 0..3}

Interstitials(charge) ==
    {DefectEntryOf(<<>>, <<i>>, coords, charge) :
         i \in 0..4, coords \in InterstitialCoords}

Substitutions(charge) ==
    {DefectEntryOf(<<k>>, <<i>>, PerfectCoords[k + 1], charge) :
         k \in 0..3, i \in 0..3}

DefectEntries ==
    UNION {Vacancies(charge) \cup Interstitials(charge)
               \cup Substitutions(charge) : charge \in AlignCharges}

\* defect_dft.electrostatic_potential
EpDefect(mapping) ==
    [d_atom \in 1..Len(mapping) |->
        IF mapping[d_atom] = None THEN EpInserted
        ELSE EpPerfect[mapping[d_atom] + 1] + EpShift[mapping[d_atom] + 1]]

\* a list with its last entry dropped (by = -1), as it is (0), or with one
\* more entry (1)
Resized(list, by, entry) ==
    IF by < 0 THEN SubSeq(list, 1, Len(list) - 1)
    ELSE IF by = 0 THEN list
    ELSE Append(list, entry)

\* the arguments of one call: defect_entry, defect_dft (frac_coords and
\* ep_defect, of by_defect atoms more than the entry has), perfect_dft (axis
\* and ep_perfect, of by_perfect atoms more), unitcell_dft (dielectric_tensor)
\* and ewald
AlignStart(axis, defect_entry, ewald_param, dielectric_tensor, site_model_potential, by_defect, by_perfect) ==
    [pc |-> "start",
     axis |-> axis,
     defect_entry |-> defect_entry,
     frac_coords |-> Resized(defect_entry.initial_structure, by_defect,
                             <<250, 250, 250>>),
     ep_defect |-> Resized(EpDefect(atom_mapping_to_perfect(defect_entry)),
                           by_defect, EpInserted),
     ep_perfect |-> Resized(EpPerfect, by_perfect, 0 - 490),
     dielectric_tensor |-> dielectric_tensor,
     site_model_potential |-> site_model_potential,
     ewald |-> EwaldNew(axis, dielectric_tensor, ewald_param, 3 * Unit,
                        None, None),
     diff_ep |-> <<>>,
     atomic_position_without_defect |-> <<>>,
     defect_coords |-> Zero3,
     distances_from_defect |-> <<>>,
     linalg |-> {},
     summed |-> <<>>,
     model_pot |-> <<>>,
     model_pot_defect_site |-> None,
     lattice_energy |-> None,
     distance_threshold |-> None,
     pot_diff |-> <<>>,
     result |-> None,
     read |-> None,
     error |-> ""]

AlignInit ==
    /\ gen = Idle
    /\ opt = Idle
    /\ cor = Idle
    /\ drv = Idle
    /\ \E axis \in AlignLattices, defect_entry \in DefectEntries,
          ewald_param \in AlignEwaldParams,
          site_model_potential \in SiteModelPotentials :
          aln = AlignStart(axis, defect_entry, ewald_param,
                           Angstrom(Diag(1, 1, 1)), site_model_potential,
                           0, 0)

\* the IndexError of lines 231 and 232: a mapped atom the defect results, or
\* a perfect atom the perfect results, have no potential for
RelativePotentialRaises(mapping, ep_defect, ep_perfect) ==
    \E d_atom \in 1..Len(mapping) :
        /\ mapping[d_atom] # None
        /\ \/ d_atom > Len(ep_defect)
           \/ mapping[d_atom] + 1 > Len(ep_perfect)

\* the IndexError of line 404 (a mapped atom) and of line 41 of
\* defect_center (an inserted atom) beyond the end of frac_coords
FracCoordsRaises(mapping, inserted_atoms, frac_coords) ==
    \/ \E i \in 1..Len(mapping) :
           mapping[i] # None /\ i > Len(frac_coords)
    \/ \E k \in 1..Len(inserted_atoms) :
           inserted_atoms[k] + 1 > Len(frac_coords)

\* faulty variant of PerfectPotentialAfter: relative_potential keeps its
\* differences in the list of the perfect results
PerfectPotentialAfterInPlace(mapping, ep_defect, ep_perfect) ==
    [p_atom \in 1..Len(ep_perfect) |->
        IF \E d_atom \in 1..Len(mapping) : mapping[d_atom] = p_atom - 1
        THEN ep_defect[CHOOSE d_atom \in 1..Len(mapping) :
                           mapping[d_atom] = p_atom - 1]
                 - ep_perfect[p_atom]
        ELSE ep_perfect[p_atom]]

\* perfect_dft_results.electrostatic_potential after relative_potential,
\* which appends to a list of its own (line 224) and only reads the
\* potentials of the perfect results (line 232)
PerfectPotentialAfter(mapping, ep_defect, ep_perfect) == ep_perfect

\* lines 400 to 412: the call after them, with the lists the alignment is
\* computed from
AfterPrepare(self) ==
    LET mapping == atom_mapping_to_perfect(self.defect_entry)
        defect_coords == defect_center(self.defect_entry, self.frac_coords)
    IN  IF \/ RelativePotentialRaises(mapping, self.ep_defect,
                                      self.ep_perfect)
           \/ FracCoordsRaises(mapping, self.defect_entry.inserted_atoms,
                               self.frac_coords)
        THEN [self EXCEPT !.pc = "raised", !.error = "IndexError"]
        ELSE [self EXCEPT
                !.pc = "model",
                !.diff_ep = relative_potential(mapping, self.ep_defect,
                                               self.ep_perfect),
                !.ep_perfect = PerfectPotentialAfter(mapping, self.ep_defect,
                                                     self.ep_perfect),
                !.atomic_position_without_defect =
                    SelectSeq([i \in 1..Len(mapping) |->
                                  IF mapping[i] = None THEN <<>>
                                  ELSE self.frac_coords[i]],
                              LAMBDA r : r # <<>>),
                !.defect_coords = defect_coords,
                !.distances_from_defect =
                    distance_list(self.frac_coords, self.axis,
                                  defect_coords)]

Prepare ==
    /\ aln.pc = "start"
    /\ aln' = AfterPrepare(aln)
    /\ UNCHANGED <<gen, opt, cor, drv>>

\* sconst.elementary_charge * 1.0e10 / sconst.epsilon_0 in V A:
\* 1.602176634e-19 * 1e10 / 8.8541878128e-12 = 180.951
VoltAngstrom == 180951

\* line 416
coeff(charge) == charge * VoltAngstrom

\* np.sqrt(np.linalg.det(tensor)): nan (with a RuntimeWarning) for a
\* negative determinant
root_det_epsilon(tensor) ==
    IF Det(tensor) < 0 THEN NaN ELSE Sqrt(Det(tensor))

\* np.linalg.inv(tensor) raises LinAlgError for a singular matrix
InvRaises(tensor) == Det(tensor) = 0

\* x * coeff of floats
TimesCoeff(x, charge) ==
    IF x = NaN THEN NaN ELSE Mul(x, coeff(charge))

\* pi as a float
Pi == PiMicro \div ((10 ^ 6) \div Unit)

\* lines 486 to 488: ewald_param / (2 pi sqrt(pi det(epsilon)))
self_pot(ewald) ==
    LET det_epsilon == Det(ewald.dielectric_tensor)
    IN  IF det_epsilon < 0 THEN NaN
        ELSE Div(ewald.ewald_param, Mul(TwoPi, Sqrt(Mul(Pi, det_epsilon))))

\* line 419: -0.25 / volume / ewald.ewald_param ** 2
diff_pot(volume, ewald) ==
    Div(Div(0 - Unit \div 4, volume), Mul(ewald.ewald_param, ewald.ewald_param))

\* A faulty variant of ModelPotentialAt: self_pot is added at every atom.
ModelPotentialAtWithSelf(self, r) ==
    IF root_det_epsilon(self.ewald.dielectric_tensor) = NaN THEN NaN
    ELSE TimesCoeff(
             self.site_model_potential.atom[
                 CHOOSE p \in 1..Len(PerfectCoords) : PerfectCoords[p] = r]
                 + diff_pot(Volume(self.axis), self.ewald)
                 + self_pot(self.ewald),
             self.defect_entry.charge)

\* the value lines 420 to 450 give for the atom at r: the sum of the three
\* parts, nan when root_det_epsilon is, times coeff
ModelPotentialAt(self, r) ==
    IF root_det_epsilon(self.ewald.dielectric_tensor) = NaN THEN NaN
    ELSE TimesCoeff(
             self.site_model_potential.atom[
                 CHOOSE p \in 1..Len(PerfectCoords) : PerfectCoords[p] = r]
                 + diff_pot(Volume(self.axis), self.ewald),
             self.defect_entry.charge)

\* lines 416 to 450: model_pot has one None for each real lattice vector of
\* the Ewald object; entry i is set for the i-th atom that is not inserted.
\* The first pass of the loop evaluates the root of the determinant and the
\* inverse of ewald.dielectric_tensor.
AfterModelPotentials(self) ==
    LET length ==
            Count(generate_neighbor_lattices(self.ewald, TRUE, Zero3, FALSE))
        atoms == self.atomic_position_without_defect
        tensor == self.ewald.dielectric_tensor
        Value(i) == ModelPotentialAt(self, atoms[i])
        \* line 427 sums over the real lattice shifted by r - defect_coords,
        \* line 447 takes the cosine of g . r
        Summed(n) == [i \in 1..n |->
                        [shift |-> VecSub(atoms[i], self.defect_coords),
                         r |-> atoms[i]]]
    IN  IF Len(atoms) = 0
        THEN [self EXCEPT
                !.pc = "site",
                !.model_pot = [i \in 1..length |-> None]]
        ELSE IF InvRaises(tensor)
        THEN [self EXCEPT
                !.pc = "raised",
                !.error = "LinAlgError",
                !.linalg = {"sqrt_det", "inv"},
                !.model_pot = [i \in 1..length |-> None]]
        ELSE IF Len(atoms) > length
        THEN [self EXCEPT
                !.pc = "raised",
                !.error = "IndexError",
                !.linalg = {"sqrt_det", "inv"},
                !.summed = Summed(length + 1),
                !.model_pot = [i \in 1..length |-> Value(i)]]
        ELSE [self EXCEPT
                !.pc = "site",
                !.linalg = {"sqrt_det", "inv"},
                !.summed = Summed(Len(atoms)),
                !.model_pot =
                    [i \in 1..length |->
                        IF i <= Len(atoms) THEN Value(i)
                        ELSE None]]

ModelPotentials ==
    /\ aln.pc = "model"
    /\ aln' = AfterModelPotentials(aln)
    /\ UNCHANGED <<gen, opt, cor, drv>>

\* line 492: model_pot_defect_site * charge / 2
LatticeEnergyOf(model_pot_defect_site, charge) ==
    IF model_pot_defect_site = NaN THEN NaN
    ELSE DivRound(model_pot_defect_site * charge, 2)

\* lines 452 to 496: the model potential at the defect site and the lattice
\* energy, which are printed and kept in no object
AfterDefectSite(self) ==
    LET tensor == self.ewald.dielectric_tensor
        charge == self.defect_entry.charge
        model_pot_defect_site ==
            IF root_det_epsilon(tensor) = NaN THEN NaN
            ELSE TimesCoeff(self.site_model_potential.defect_site
                         + diff_pot(Volume(self.axis), self.ewald)
                         + self_pot(self.ewald), charge)
    IN  IF InvRaises(tensor)
        THEN [self EXCEPT
                !.pc = "raised",
                !.error = "LinAlgError",
                !.linalg = {"sqrt_det", "inv"}]
        ELSE [self EXCEPT
                !.pc = "average",
                !.linalg = {"sqrt_det", "inv"},
                !.model_pot_defect_site = model_pot_defect_site,
                !.lattice_energy =
                    LatticeEnergyOf(model_pot_defect_site, charge)]

DefectSite ==
    /\ aln.pc = "site"
    /\ aln' = AfterDefectSite(aln)
    /\ UNCHANGED <<gen, opt, cor, drv>>

\* the loop of lines 500 to 502 from position k on: the list pot_diff, or
\* the TypeError of a - m with a None operand
RECURSIVE ZipLoop(_, _, _, _, _, _)
ZipLoop(distances, diff_ep, model_pot, distance_threshold, k, pot_diff) ==
    IF k > Min2(Len(distances), Min2(Len(diff_ep), Len(model_pot)))
    THEN [pot_diff |-> pot_diff, error |-> ""]
    ELSE IF distances[k] > distance_threshold
    THEN IF diff_ep[k] = None \/ model_pot[k] = None
         THEN [pot_diff |-> pot_diff, error |-> "TypeError"]
         ELSE ZipLoop(distances, diff_ep, model_pot, distance_threshold,
                      k + 1,
                      Append(pot_diff,
                             IF model_pot[k] = NaN THEN NaN
                             ELSE diff_ep[k] - model_pot[k]))
    ELSE ZipLoop(distances, diff_ep, model_pot, distance_threshold, k + 1,
                 pot_diff)

\* faulty variant of AlignmentOf: the factor -1.0 is lost
AlignmentOfUnsigned(ave_pot_diff, charge) ==
    IF ave_pot_diff = NaN THEN NaN ELSE ave_pot_diff * charge

\* -1.0 * ave_pot_diff * charge
AlignmentOf(ave_pot_diff, charge) ==
    IF ave_pot_diff = NaN THEN NaN ELSE 0 - ave_pot_diff * charge

\* lines 498 to 509: the threshold, the average and the Correction
AfterAverage(self) ==
    LET distance_threshold == calc_max_sphere_radius(self.axis)
        loop == ZipLoop(self.distances_from_defect, self.diff_ep,
                        self.model_pot, distance_threshold, 1, <<>>)
        ave_pot_diff == Mean(loop.pot_diff)
        alignment == AlignmentOf(ave_pot_diff, self.defect_entry.charge)
    IN  IF loop.error # ""
        THEN [self EXCEPT
                !.pc = "raised",
                !.error = loop.error,
                !.distance_threshold = distance_threshold,
                !.pot_diff = loop.pot_diff]
        ELSE [self EXCEPT
                !.pc = "returned",
                !.distance_threshold = distance_threshold,
                !.pot_diff = loop.pot_diff,
                !.result = CorrectionNew(extended_fnv, self.ewald,
                               ave_pot_diff, alignment, None)]

Average ==
    /\ aln.pc = "average"
    /\ aln' = AfterAverage(aln)
    /\ UNCHANGED <<gen, opt, cor, drv>>

\* Correction.corrected_energy (lines 285 to 287): the attribute
\* _corrected_energy of the object, AttributeError when it has none
corrected_energy(self) ==
    IF "corrected_energy" \in DOMAIN self
    THEN [value |-> self.corrected_energy, error |-> ""]
    ELSE [value |-> None, error |-> "AttributeError"]

\* the caller reads corrected_energy of the Correction it got
ReadCorrectedEnergy ==
    /\ aln.pc = "returned"
    /\ aln' = [aln EXCEPT !.pc = "read",
                          !.read = corrected_energy(aln.result)]
    /\ UNCHANGED <<gen, opt, cor, drv>>

AlignNext ==
    Prepare \/ ModelPotentials \/ DefectSite \/ Average
        \/ ReadCorrectedEnergy

AlignSpec == AlignInit /\ [][AlignNext]_vars

\* calls of Correction.compute_correction with an Ewald object (lines 354 to
\* 363 hand the arguments on unchanged) and a dielectric tensor that may not
\* be positive definite
TensorInit ==
    /\ gen = Idle
    /\ opt = Idle
    /\ cor = Idle
    /\ drv = Idle
    /\ \E axis \in {Angstrom(Cubic(4)), Angstrom(Diag(2, 4, 6))},
          charge \in {-1, 2}, ewald_param \in AlignEwaldParams,
          dielectric_tensor \in AlignTensors,
          site_model_potential \in SiteModelPotentials :
       \E defect_entry \in Vacancies(charge) \cup Interstitials(charge) :
          aln = AlignStart(axis, defect_entry, ewald_param,
                           dielectric_tensor, site_model_potential, 0, 0)

TensorSpec == TensorInit /\ [][AlignNext]_vars

\* calls in which the defect results have one atom fewer or more than the
\* defect entry, or the perfect results one atom fewer than the mapping
\* refers to
MappingInit ==
    /\ gen = Idle
    /\ opt = Idle
    /\ cor = Idle
    /\ drv = Idle
    /\ \E axis \in {Angstrom(Cubic(4)), Angstrom(SupercellSheared)},
          charge \in {-1, 2}, ewald_param \in AlignEwaldParams,
          by_defect \in {-1, 0, 1}, by_perfect \in {-1, 0} :
       \E defect_entry \in Vacancies(charge) \cup Interstitials(charge),
          site_model_potential \in SiteModelPotentials :
          aln = AlignStart(axis, defect_entry, ewald_param,
                           Angstrom(Diag(1, 1, 1)), site_model_potential,
                           by_defect, by_perfect)

MappingSpec == MappingInit /\ [][AlignNext]_vars

-----------------------------------------------------------------------------
(* BatchSpec: two calls of compute_alignment_by_extended_fnv that share    *)
(* the perfect results (lattice and potentials) and run interleaved, each  *)
(* with its own defect entry, defect results and Ewald object.             *)

\* the call after the next of its steps
CallStep(self) ==
    IF self.pc = "start" THEN AfterPrepare(self)
    ELSE IF self.pc = "model" THEN AfterModelPotentials(self)
    ELSE IF self.pc = "site" THEN AfterDefectSite(self)
    ELSE IF self.pc = "average" THEN AfterAverage(self)
    ELSE self

\* the call run from its start to its return or raise
RunCall(self) == CallStep(CallStep(CallStep(CallStep(self))))

\* the call with the perfect results as they are now
WithPerfect(self, axis, ep_perfect) ==
    [self EXCEPT !.axis = axis, !.ep_perfect = ep_perfect]

BatchEntries ==
    Vacancies(-1) \cup Vacancies(2)
        \cup {DefectEntryOf(<<>>, <<4>>, coords, 2) :
                  coords \in InterstitialCoords}

\* one_after_the_other: what the two calls give when the second starts
\* after the first has ended
BatchInit ==
    /\ gen = Idle
    /\ opt = Idle
    /\ cor = Idle
    /\ drv = Idle
    /\ \E axis \in {Angstrom(Cubic(4)), Angstrom(SupercellSheared)},
          first_entry \in BatchEntries, second_entry \in BatchEntries,
          ewald_param \in AlignEwaldParams :
       \E first \in {AlignStart(axis, first_entry, 600,
                                Angstrom(Diag(1, 1, 1)),
                                [atom |-> <<12, 10, 9, 8>>,
                                 defect_site |-> 0 - 40], 0, 0)},
          second \in {AlignStart(axis, second_entry, ewald_param,
                                 Angstrom(Diag(1, 1, 1)),
                                 [atom |-> <<-5, -3, -2, -1>>,
                                  defect_site |-> 25], 0, 0)} :
       \E first_alone \in {RunCall(first)} :
          aln = [pc |-> "batch",
                 axis |-> axis,
                 ep_perfect |-> EpPerfect,
                 call |-> <<first, second>>,
                 one_after_the_other |->
                     <<first_alone,
                       RunCall(WithPerfect(second, first_alone.axis,
                                           first_alone.ep_perfect))>>]

\* the next step of one of the two calls; what the step does to the perfect
\* results is what the other call finds
BatchStep ==
    /\ aln.pc = "batch"
    /\ \E k \in 1..2 :
          /\ aln.call[k].pc \in {"start", "model", "site", "average"}
          /\ \E after \in {CallStep(WithPerfect(aln.call[k], aln.axis,
                                                 aln.ep_perfect))} :
                aln' = [aln EXCEPT !.call[k] = after,
                                   !.axis = after.axis,
                                   !.ep_perfect = after.ep_perfect]
    /\ UNCHANGED <<gen, opt, cor, drv>>

BatchSpec == BatchInit /\ [][BatchStep]_vars

\* half the shortest of the three distances between opposite cell faces
HalfShortestPlaneDistance(lattice_vectors) ==
    DivRound(MinOf(Elements(calc_distance_two_planes(lattice_vectors))), 2)

\* C8: the radius compute_alignment_by_extended_fnv compares the distances
\* with is half the shortest of the three inter-plane distances of the
\* reference cell.
C8_RadiusIsHalfShortestDistance ==
    aln.distance_threshold # None =>
        aln.distance_threshold = HalfShortestPlaneDistance(aln.axis)

\* the atoms of the defect structure that are not inserted and lie farther
\* from the defect center than the threshold, in the order of the structure
FarMappedAtoms ==
    LET mapping == atom_mapping_to_perfect(aln.defect_entry)
    IN  SelectSeq([d \in 1..Len(mapping) |-> d],
                  LAMBDA d : /\ mapping[d] # None
                             /\ aln.distances_from_defect[d]
                                    > aln.distance_threshold)

\* for each such atom, its own potential difference minus its own model
\* potential
ExpectedPotDiff ==
    [k \in 1..Len(FarMappedAtoms) |->
        aln.diff_ep[FarMappedAtoms[k]]
            - ModelPotentialAt(aln, aln.frac_coords[FarMappedAtoms[k]])]

\* C9: the averaged terms are those of exactly the atoms that are not
\* inserted and lie beyond the threshold, each term made of the potential
\* difference and the model potential of that same atom, for every atom
\* mapping, those with a None entry included.
C9_AveragedTermsPairOneAtom ==
    /\ aln.pc = "returned" => aln.pot_diff = ExpectedPotDiff
    /\ ~(aln.pc = "raised" /\ aln.error = "TypeError")

\* C10: with no atom that is not inserted beyond the threshold the call
\* raises NoAtomsOutsideCutoffError; no returned Correction has a NaN average
\* potential difference or a NaN alignment.
C10_NoAtomOutsideRaises ==
    /\ aln.pc = "returned" =>
          /\ aln.result.diff_ave_pot # NaN
          /\ aln.result.alignment # NaN
    /\ (aln.distance_threshold # None /\ Len(FarMappedAtoms) = 0) =>
          /\ aln.pc = "raised"
          /\ aln.error = "NoAtomsOutsideCutoffError"

\* C11: once the model potentials are built, model_pot has exactly one entry
\* for each atom that is not inserted, every entry is a computed potential,
\* and building it never fails, whatever the number of real lattice vectors
\* within the cutoff of the Ewald object.
C11_ModelPotOneEntryPerMappedAtom ==
    /\ ~(aln.pc = "raised" /\ aln.error = "IndexError")
    /\ aln.pc \in {"site", "average", "returned"} =>
          /\ Len(aln.model_pot) = Len(aln.atomic_position_without_defect)
          /\ \A i \in 1..Len(aln.model_pot) : aln.model_pot[i] # None

\* C12: every Correction the call returns has alignment equal to minus its
\* stored average potential difference times the charge of the defect entry
\* (a nan average gives a nan alignment).
C12_AlignmentIsMinusAverageTimesCharge ==
    aln.pc = "returned" =>
        IF aln.result.diff_ave_pot = NaN
        THEN aln.result.alignment = NaN
        ELSE aln.result.alignment
                 = 0 - aln.result.diff_ave_pot * aln.defect_entry.charge

C12_Witness ==
    /\ aln.pc = "returned"
    /\ aln.result.diff_ave_pot \notin {NaN, 0}
    /\ aln.defect_entry.charge = 2
    /\ aln.result.alignment = 0 - 2 * aln.result.diff_ave_pot

\* C13: reading corrected_energy of a Correction the call returned never
\* fails and gives the lattice energy q * potential(0) / 2 plus the alignment.
C13_CorrectedEnergyIsLatticePlusAlignment ==
    aln.pc = "read" =>
        /\ aln.read.error = ""
        /\ aln.read.value = aln.lattice_energy + aln.result.alignment

\* C14: for a defect of charge 0 every model potential that is computed, the
\* model potential at the defect site, the lattice energy and the alignment
\* of the returned Correction are exactly 0.
C14_ZeroChargeGivesZero ==
    aln.defect_entry.charge = 0 =>
        /\ \A i \in 1..Len(aln.model_pot) : aln.model_pot[i] \in {None, 0}
        /\ aln.model_pot_defect_site \in {None, 0}
        /\ aln.lattice_energy \in {None, 0}
        /\ aln.pc \in {"returned", "read"} => aln.result.alignment = 0

\* C15: constructing an Ewald object, or running from_optimization, on a
\* lattice matrix with a zero row raises InvalidGeometryError, and no integer
\* triple has been enumerated by then.
C15_ZeroRowRaisesInvalidGeometry ==
    (Det(opt.structure) = 0 /\ opt.pc # "start") =>
        /\ opt.pc = "raised"
        /\ opt.error = "InvalidGeometryError"
        /\ ~opt.enumerated

\* C18: Ewald.from_dict(e.as_dict()) has the lattice, the dielectric tensor,
\* the Ewald parameter, the accuracy parameter and the two vector counts of
\* e, and its construction ran no enumeration of lattice vectors.
C18_EwaldDictRoundTrip ==
    opt.pc = "restored" =>
        /\ EwaldAsDict(opt.restored.ewald) = EwaldAsDict(opt.result)
        /\ ~opt.restored.enumerated

C18_Witness ==
    /\ opt.pc = "restored"
    /\ opt.result.num_reciprocal_lattice # opt.result.num_real_lattice - 1
    /\ opt.restored.ewald.num_reciprocal_lattice
           = opt.result.num_reciprocal_lattice

\* a symmetric matrix whose leading minors are all positive
SymmetricPositiveDefinite(t) ==
    /\ \A i, k \in 1..3 : t[i][k] = t[k][i]
    /\ t[1][1] > 0
    /\ Mul(t[1][1], t[2][2]) - Mul(t[1][2], t[2][1]) > 0
    /\ Det(t) > 0

\* C16: with a dielectric tensor that is not symmetric positive definite the
\* call ends, before anything is computed, with InvalidDielectricTensorError:
\* neither the root of the determinant nor the inverse of the tensor is
\* ever evaluated.
C16_BadTensorRejectedBeforeUse ==
    ~SymmetricPositiveDefinite(aln.dielectric_tensor) =>
        /\ aln.linalg = {}
        /\ aln.pc # "start" =>
              /\ aln.pc = "raised"
              /\ aln.error = "InvalidDielectricTensorError"

\* the atom mapping of the defect entry and the two results disagree: the
\* defect results hold another number of atoms than the mapping, or the
\* mapping names an atom the perfect results do not hold
InconsistentMapping ==
    LET mapping == atom_mapping_to_perfect(aln.defect_entry)
    IN  \/ Len(mapping) # Len(aln.frac_coords)
        \/ \E d_atom \in 1..Len(mapping) :
               /\ mapping[d_atom] # None
               /\ mapping[d_atom] + 1 > Len(aln.ep_perfect)

\* C17: with an inconsistent atom mapping the call ends at once with
\* InconsistentMappingError and returns no Correction.
C17_InconsistentMappingRaises ==
    (InconsistentMapping /\ aln.pc # "start") =>
        /\ aln.pc = "raised"
        /\ aln.error = "InconsistentMappingError"

\* C19: no operation on a Correction changes its method, Ewald object,
\* average potential difference, alignment or manually set energy.
C19_CorrectionIsImmutable == [][cor'.c = cor.c]_vars

\* C20: no step of a call changes the lattice or the potentials of the
\* perfect results, the Ewald object or the defect entry, and each of two
\* interleaved calls that share the perfect results ends as it does when
\* the calls run one after the other.
C20_SharedInputsUnchanged ==
    [][/\ aln'.axis = aln.axis
       /\ aln'.ep_perfect = aln.ep_perfect
       /\ \A k \in 1..2 :
             /\ aln'.call[k].ewald = aln.call[k].ewald
             /\ aln'.call[k].defect_entry = aln.call[k].defect_entry
             /\ aln'.call[k].pc \in {"returned", "raised"} =>
                   aln'.call[k] = aln.one_after_the_other[k]]_vars

C20_Witness ==
    /\ aln.call[1].pc = "returned"
    /\ aln.call[2].pc = "returned"
    /\ aln.call[1].result.diff_ave_pot # NaN
    /\ aln.call[2].result.diff_ave_pot # NaN
    /\ aln.call[1].result # aln.call[2].result
    /\ aln.ep_perfect = EpPerfect

----------------------------------------------------------------------------
(* DriverSpec: correction(args) of the command line (main.py) walks its    *)
(* directories.  One CorrectDirectory is one pass of its for loop, the     *)
(* try block and the except clause included; EndLoop is the loop running   *)
(* out of directories.  What a directory holds is an input: whether a      *)
(* correction.json is already there, and whether reading its json files or *)
(* computing its correction raises.                                        *)

MaxDirs == 3

\* the attributes the class Correction defines
CorrectionAttributes ==
    {"method", "ewald", "corrected_energy", "manually_set_energy", "as_dict",
     "from_dict", "to_json_file", "load_json", "compute_correction",
     "compute_alignment_by_extended_fnv"}

\* a directory: exists is os.path.exists(json_to_make); fault names the
\* exception its files lead to, IOError from a load_json of the try block,
\* IndexError from compute_alignment_by_extended_fnv, "" for none
Directories == [exists : BOOLEAN, fault : {"", "IOError", "IndexError"}]

DriverInit ==
    /\ gen = Idle
    /\ opt = Idle
    /\ cor = Idle
    /\ aln = Idle
    /\ drv \in [pc : {"loop"},
                dirs : [1..MaxDirs -> Directories],
                force_overwrite : BOOLEAN,
                i : {1},
                outcome : {[k \in 1..MaxDirs |-> "pending"]},
                computed : {{}},
                written : {{}}]

\* The try block of one directory: the exception that leaves it ("" when it
\* runs to its end), whether c was bound to a Correction and whether
\* c.to_json_file was reached.
TryBlock(directory) ==
    IF directory.fault = "IOError"
    THEN [raised |-> "IOError", computed |-> FALSE, written |-> FALSE]
    ELSE IF directory.fault = "IndexError"
    THEN [raised |-> "IndexError", computed |-> FALSE, written |-> FALSE]
    ELSE IF "plot_distance_vs_potential" \notin CorrectionAttributes
    THEN [raised |-> "AttributeError", computed |-> TRUE, written |-> FALSE]
    ELSE [raised |-> "", computed |-> TRUE, written |-> TRUE]

\* A faulty variant of Excepted: the exception leaves correction(args).
ExceptedByLeaving(self, e) ==
    [self EXCEPT !.pc = "raised", !.outcome[self.i] = e]

\* except Exception as e: warnings.warn(...), and the loop goes on
Excepted(self, e) ==
    [self EXCEPT !.outcome[self.i] = e, !.i = self.i + 1]

CorrectDirectory ==
    /\ drv.pc = "loop"
    /\ drv.i <= Len(drv.dirs)
    /\ UNCHANGED <<gen, opt, cor, aln>>
    /\ \E directory \in {drv.dirs[drv.i]} :
          IF directory.exists /\ ~drv.force_overwrite
          THEN drv' = [drv EXCEPT !.outcome[drv.i] = "exists",
                                  !.i = drv.i + 1]
          ELSE \E try \in {TryBlock(directory)} :
                  \E after \in {[drv EXCEPT
                        !.computed = IF try.computed THEN @ \cup {drv.i}
                                     ELSE @,
                        !.written = IF try.written THEN @ \cup {drv.i}
                                    ELSE @]} :
                      IF try.raised # ""
                      THEN drv' = Excepted(after, try.raised)
                      ELSE drv' = [after EXCEPT !.outcome[drv.i] = "corrected",
                                                !.i = drv.i + 1]

EndLoop ==
    /\ drv.pc = "loop"
    /\ drv.i > Len(drv.dirs)
    /\ UNCHANGED <<gen, opt, cor, aln>>
    /\ drv' = [drv EXCEPT !.pc = "returned"]

DriverNext == CorrectDirectory \/ EndLoop

DriverSpec == DriverInit /\ [][DriverNext]_vars

\* the interpreter runs the loop on: a pass that can be taken is taken
FairDriverSpec == DriverSpec /\ WF_vars(DriverNext)

\* C21: whatever the directories hold, correction(args) returns, and by then
\* every directory, those after a failed one included, was either skipped
\* for its existing correction.json, corrected, or reported with the
\* exception of its own try block.
C21_LoopReachesEveryDirectory ==
    <>(/\ drv.pc = "returned"
       /\ \A k \in 1..Len(drv.dirs) : drv.outcome[k] # "pending")

\* A returned run whose first directory failed on reading, whose second was
\* skipped and whose third failed after its correction was computed.
C21_Witness ==
    /\ drv.pc = "returned"
    /\ drv.outcome[1] = "IOError"
    /\ drv.outcome[2] = "exists"
    /\ drv.outcome[3] = "AttributeError"

\* C22: whenever compute_alignment_by_extended_fnv returned a Correction
\* for a directory, correction.json was written for that directory.
C22_JsonWrittenWhenComputed ==
    \A k \in 1..Len(drv.dirs) :
        (k \in drv.computed /\ drv.outcome[k] # "pending")
            => k \in drv.written

----------------------------------------------------------------------------
(* OrientSpec: the generator is drained for a cubic cell of 2 Angstrom in  *)
(* each of its 48 orientations along the Cartesian axes.                   *)

\* the basis rows of a cubic cell, permuted and with their signs flipped
CubicOrientations ==
    {[i \in 1..3 |-> [k \in 1..3 |->
          IF p[i] = k THEN s[i] * 2 * Unit ELSE 0]] :
       p \in {q \in [1..3 -> 1..3] : {q[1], q[2], q[3]} = 1..3},
       s \in [1..3 -> {-1, 1}]}

OrientInit ==
    /\ opt = Idle
    /\ cor = Idle
    /\ aln = Idle
    /\ drv = Idle
    /\ gen \in [pc : {"start"},
                lattice_vectors : CubicOrientations,
                max_length : {k * Unit : k \in 1..MaxNorm},
                include_self : BOOLEAN,
                shift : {Zero3, <<500, 0, 0>>},
                index : {<<>>},
                yielded : {<<>>},
                again : {<<>>}]

OrientSpec == OrientInit /\ [][GenNext]_vars

\* C23: for a cubic cell, whatever the permutation and the signs of its
\* basis rows, a drain yields as many vectors as the drain for the cell
\* with rows (a,0,0), (0,a,0), (0,0,a) and the same max_norm, include_self
\* and shift.
C23_CountSameForEveryOrientation ==
    gen.pc = "drained" =>
        Len(gen.yielded) =
            Len(GenerateNeighborLattices(
                    Angstrom(Cubic(Isqrt(Norm2(gen.lattice_vectors[1]))
                                       \div Unit)),
                    gen.max_length, gen.include_self, gen.shift))

\* A drain for a cell whose rows are permuted and flipped that yielded
\* vectors of more than one shell.
C23_Witness ==
    /\ gen.pc = "drained"
    /\ gen.lattice_vectors[1][1] = 0
    /\ gen.lattice_vectors[1][2] < 0
    /\ gen.lattice_vectors[3][1] < 0
    /\ Len(gen.yielded) > 7

----------------------------------------------------------------------------
(* EntrySpec: a DefectEntry is made by from_yaml from the perfect          *)
(* supercell of four sites and a defect supercell, and its                 *)
(* atom_mapping_to_perfect is read.  A defect supercell is the list of its *)
(* sites, each the index of the perfect site it lies on or None for an     *)
(* atom on no perfect site.                                                *)

MaxInserted == 2

\* defect_structure: the kept perfect sites in their order, at most
\* MaxInserted atoms on no perfect site, anywhere in the list
DefectStructures ==
    UNION {{d \in [1..n -> {None} \cup 0..(Len(PerfectCoords) - 1)] :
              /\ Cardinality({j \in 1..n : d[j] = None}) <= MaxInserted
              /\ \A j, k \in 1..n :
                    (j < k /\ d[j] # None /\ d[k] # None) => d[j] < d[k]} :
           n \in 2..(Len(PerfectCoords) + MaxInserted)}

\* DefectEntry.from_yaml: inserted_atoms are the defect sites matching no
\* perfect site, removed_atoms the perfect sites matching no defect site,
\* initial_structure the perfect structure without the removed and with the
\* inserted atoms at their indices
from_yaml(defect_structure) ==
    LET inserted == {j \in 1..Len(defect_structure) :
                        defect_structure[j] = None}
        removed == {i \in 0..(Len(PerfectCoords) - 1) :
                       \A j \in 1..Len(defect_structure) :
                           defect_structure[j] # i}
        Ascending(S) == [k \in 1..Cardinality(S) |->
                            CHOOSE x \in S :
                                Cardinality({y \in S : y < x}) = k - 1]
    IN  [initial_structure |->
             [j \in 1..Len(defect_structure) |->
                 IF defect_structure[j] = None THEN <<250, 250, 250>>
                 ELSE PerfectCoords[defect_structure[j] + 1]],
         inserted_atoms |-> [k \in 1..Cardinality(inserted) |->
                                Ascending(inserted)[k] - 1],
         removed_atoms |-> [k \in 1..Cardinality(removed) |->
                               [index |-> Ascending(removed)[k],
                                coords |->
                                    PerfectCoords[Ascending(removed)[k] + 1]]],
         charge |-> 0]

EntryInit ==
    /\ gen = Idle
    /\ opt = Idle
    /\ cor = Idle
    /\ drv = Idle
    /\ aln \in {[pc |-> "entry", defect_entry |-> from_yaml(d),
                 mapping |-> <<>>] : d \in DefectStructures}

ReadMapping ==
    /\ aln.pc = "entry"
    /\ UNCHANGED <<gen, opt, cor, drv>>
    /\ aln' = [aln EXCEPT !.pc = "mapped",
                          !.mapping = atom_mapping_to_perfect(aln.defect_entry)]

EntrySpec == EntryInit /\ [][ReadMapping]_vars

\* C24: the mapping has one entry per atom of the defect supercell, None
\* exactly at the indices of inserted_atoms, and its other entries are the
\* perfect indices not in removed_atoms, in increasing order.
C24_NoneExactlyAtInsertedAtoms ==
    aln.pc = "mapped" =>
        LET mapping == aln.mapping
            entry == aln.defect_entry
            inserted == Elements(entry.inserted_atoms)
            total == Len(entry.initial_structure) - Len(entry.inserted_atoms)
                         + Len(entry.removed_atoms)
            mapped == {j \in 1..Len(mapping) : mapping[j] # None}
        IN  /\ Len(mapping) = Len(entry.initial_structure)
            /\ \A j \in 1..Len(mapping) :
                  (mapping[j] = None) <=> ((j - 1) \in inserted)
            /\ {mapping[j] : j \in mapped} =
                  (0..(total - 1)) \ RemovedKeys(entry)
            /\ \A j, k \in mapped : j < k => mapping[j] < mapping[k]

----------------------------------------------------------------------------
(* The vectors the two Ewald sums are evaluated at (AlignSpec).            *)

\* the Cartesian vector of a fractional one: frac . axis
CartesianOf(axis, frac) ==
    [k \in 1..3 |-> Mul(frac[1], axis[1][k]) + Mul(frac[2], axis[2][k])
                        + Mul(frac[3], axis[3][k])]

\* C25: for each atom whose sums were evaluated, the real lattice was
\* shifted by, and the cosine of the reciprocal sum was taken at, the same
\* vector: the Cartesian vector from the defect center to the atom.
C25_SumsAtCartesianDisplacement ==
    \A i \in 1..Len(aln.summed) :
        LET displacement ==
                CartesianOf(aln.axis,
                            VecSub(aln.atomic_position_without_defect[i],
                                   aln.defect_coords))
        IN  /\ aln.summed[i].shift = displacement
            /\ aln.summed[i].r = displacement

----------------------------------------------------------------------------
(* The search range of the generator (GenSpec).                            *)

\* ceil(max_length / sqrt(norm2)) for max_length >= 0 and norm2 > 0
CeilOfRatio(max_length, norm2) ==
    LET floor == IntOfRatio(max_length, norm2)
    IN  IF floor * floor * norm2 = max_length * max_length THEN floor
        ELSE floor + 1

\* C26: the triples a drain goes through are exactly those whose coefficient
\* of each axis i lies between -(ceil(max_norm / |basis_i|) + 1) and
\* +(ceil(max_norm / |basis_i|) + 1).
C26_SearchRangeIsCeilPlusOne ==
    gen.pc = "drained" =>
        LET c == [i \in 1..3 |->
                     CeilOfRatio(gen.max_length,
                                 Norm2(gen.lattice_vectors[i])) + 1]
        IN  SearchRange = ((-c[1])..c[1]) \X ((-c[2])..c[2])
                              \X ((-c[3])..c[3])

----------------------------------------------------------------------------
(* The direction of a pass of the loop of from_optimization (OptSpec).     *)

\* the counts a pass of the loop finds for the ewald_param of the state
LoopRealCount(self) ==
    Count(GenerateNeighborLattices(self.structure,
              Div(self.prod_cutoff_fwhm,
                  EwaldOf(self.structure, self.dielectric_tensor,
                          self.ewald_param)),
              TRUE, Zero3))

LoopReciprocalCount(self) ==
    Count(GenerateNeighborLattices(ReciprocalLatticeMatrix(self.structure),
              Mul(2 * EwaldOf(self.structure, self.dielectric_tensor,
                              self.ewald_param),
                  self.prod_cutoff_fwhm),
              FALSE, Zero3))

\* C27: a pass of the loop that neither returns nor raises, taken with
\* N_real / N_reciprocal at or above convergence, leaves a strictly larger
\* ewald_param, for which N_real is not larger and N_reciprocal not smaller;
\* taken with the ratio at or below 1 / convergence, it leaves a strictly
\* smaller ewald_param, for which N_real is not smaller and N_reciprocal
\* not larger.
C27_PassMovesTowardsBalance ==
    [][(opt.pc = "loop" /\ opt'.pc = "loop") =>
          \E real \in {LoopRealCount(opt)},
             reciprocal \in {LoopReciprocalCount(opt)},
             next_real \in {LoopRealCount(opt')},
             next_reciprocal \in {LoopReciprocalCount(opt')} :
             /\ Unit * real >= opt.convergence * reciprocal =>
                   /\ opt'.ewald_param > opt.ewald_param
                   /\ next_real <= real
                   /\ next_reciprocal >= reciprocal
             /\ opt.convergence * real <= Unit * reciprocal =>
                   /\ opt'.ewald_param < opt.ewald_param
                   /\ next_real >= real
                   /\ next_reciprocal <= reciprocal]_vars

\* The loop after a pass that rescaled ewald_param, about to take another.
C27_Witness ==
    /\ opt.pc = "loop"
    /\ opt.enumerated
    /\ Rescaled

\* C30: whenever the loop is about to take a pass, at least one reciprocal
\* lattice vector other than the origin lies within 2 * ewald *
\* prod_cutoff_fwhm, and no pass raises ZeroDivisionError.
C30_ReciprocalCountAtLeastOne ==
    /\ opt.pc = "loop" => LoopReciprocalCount(opt) >= 1
    /\ opt.pc = "raised" => opt.error # "ZeroDivisionError"

----------------------------------------------------------------------------
(* The terms of the model potentials (AlignSpec).                          *)

\* real_part + reciprocal_part of the mapped atom i of the call
SumsOfAtom(i) ==
    aln.site_model_potential.atom[
        CHOOSE p \in 1..Len(PerfectCoords) :
            PerfectCoords[p] = aln.atomic_position_without_defect[i]]

\* C28: once the defect site is done, every per-atom model potential that
\* was computed is (real + reciprocal - 1 / (4 V sigma^2)) * coeff, without
\* the self-energy term, and the defect-site potential is (real +
\* reciprocal - 1 / (4 V sigma^2) + sigma / (2 pi sqrt(pi det epsilon)))
\* * coeff, with the self-energy term once.
C28_SelfTermOnlyAtDefectSite ==
    (aln.pc \in {"average", "returned", "read"}
        /\ aln.model_pot_defect_site \notin {None, NaN}) =>
        \E background \in {Div(Div(0 - Unit \div 4, Volume(aln.axis)),
                               Mul(aln.ewald.ewald_param,
                                   aln.ewald.ewald_param))},
           self \in {Div(aln.ewald.ewald_param,
                         Mul(TwoPi, Sqrt(Mul(Pi,
                             Det(aln.ewald.dielectric_tensor)))))} :
           /\ \A i \in 1..Len(aln.summed) :
                 (i <= Len(aln.model_pot) /\ aln.model_pot[i] # None) =>
                     aln.model_pot[i] =
                         Mul(SumsOfAtom(i) + background,
                             coeff(aln.defect_entry.charge))
           /\ aln.model_pot_defect_site =
                 Mul(aln.site_model_potential.defect_site + background + self,
                     coeff(aln.defect_entry.charge))

\* A call for a charged defect past the defect site, with per-atom
\* potentials computed and a self-energy term that is not zero.
C28_Witness ==
    /\ aln.pc = "average"
    /\ aln.defect_entry.charge # 0
    /\ Len(aln.summed) > 0
    /\ aln.model_pot[1] # None
    /\ self_pot(aln.ewald) > 0
    /\ diff_pot(Volume(aln.axis), aln.ewald) < 0

----------------------------------------------------------------------------
(* The generator as an enumeration (GenSpec).                              *)

\* C29: a drain goes through no integer triple twice and yields no more
\* vectors than its search range has triples, it leaves the basis and the
\* shift as they were, and a second drain of the same call yields the same
\* sequence of vectors as the first.
C29_FiniteRestartableEnumeration ==
    [][/\ gen'.lattice_vectors = gen.lattice_vectors
       /\ gen'.shift = gen.shift
       /\ gen'.pc = "drained" =>
             /\ \A j, k \in 1..Len(gen'.index) :
                   j # k => gen'.index[j] # gen'.index[k]
             /\ Len(gen'.yielded) <=
                   Len(ProductRange(MaxInt(gen.lattice_vectors,
                                           gen.max_length)))
       /\ gen'.pc = "restarted" => gen'.again = gen.yielded]_vars

\* A call drained twice, with a shift, that yielded several vectors.
C29_Witness ==
    /\ gen.pc = "restarted"
    /\ gen.shift # Zero3
    /\ Len(gen.again) > 7

====
